---- MODULE Spec2Model ----
(***************************************************************************)
(* The chat fan-out core of src/main.go: the package-level clients map,    *)
(* the unbuffered broadcast channel, the handleMessages goroutine and the  *)
(* per-connection websocket handler registered on /api/ws.                 *)
(*                                                                         *)
(* Every goroutine is modelled by its program counter.  The clients map is *)
(* accessed without any lock, so a map write is modelled as a window       *)
(* (begin step, end step) and a map read (one step of the range loop) as a *)
(* point: two accesses race when one starts inside the write window of     *)
(* another goroutine.  The outcome of a race is a choice between the Go    *)
(* runtime aborting the process ("concurrent map writes", "concurrent map  *)
(* iteration and map write") and the accesses taking effect one after the  *)
(* other.                                                                  *)
(***************************************************************************)
EXTENDS Naturals, Sequences, FiniteSets

VARIABLES
    clients,     \* keys of the clients map (main.go:227)
    hpc,         \* position of each connection's handler (main.go:275-289)
    cs,          \* each websocket connection: "open" or "closed"
    nread,       \* messages decoded so far by each handler
    received,    \* messages each peer got through WriteJSON, in order
    fpc,         \* position of handleMessages (main.go:230-241)
    fmsg,        \* handleMessages' local msg
    client,      \* handleMessages' range variable
    visited,     \* keys the running range loop has produced
    todo,        \* keys present when the running range loop started that it
                 \* has not produced yet
    since,       \* history: messages handed over before the connection registered
                 \* (0 again once it is removed from the map)
    fatal        \* the runtime's fatal error, once the process is aborted

vars == <<clients, hpc, cs, nread, received, fpc, fmsg, client,
          visited, todo, since, fatal>>

\* Number of websocket connections that may be accepted.
MaxConns == 3
\* Number of messages the peers send in total.
MaxMsgs == 2

Conns == 1..MaxConns
\* Goroutine identities: 0 is handleMessages, c is the handler of connection c.
FanOut == 0
NoConn == 0
NoMsg == <<>>
NoFatal == [by |-> {}, op |-> "none", with |-> {}]

RECURSIVE SumRead(_, _)
SumRead(f, S) ==
    IF S = {} THEN 0
    ELSE LET c == CHOOSE x \in S : TRUE IN f[c] + SumRead(f, S \ {c})

Running == fatal = NoFatal

\* The goroutines that are inside a write to the clients map: a handler inside
\* clients[c] = true (main.go:276) or delete(clients, c) (main.go:278), and
\* handleMessages inside delete(clients, client) (main.go:237).
mapWriters ==
    {c \in Conns : hpc[c] \in {"Registering", "Deleting"}}
        \cup (IF fpc = "deleting" THEN {FanOut} ELSE {})

\* Messages handed over by the channel so far: every decoded message except
\* those whose handler is still at the send.
Handed == SumRead(nread, Conns) - Cardinality({c \in Conns : hpc[c] = "Send"})

\* Message m with its position n in the channel's hand-over order.
Stamp(m, n) == <<m[1], m[2], n>>

Init ==
    /\ clients = {}
    /\ hpc = [c \in Conns |-> "Connecting"]
    /\ cs = [c \in Conns |-> "open"]
    /\ nread = [c \in Conns |-> 0]
    /\ received = [c \in Conns |-> <<>>]
    /\ fpc = "recv"
    /\ fmsg = NoMsg
    /\ client = NoConn
    /\ visited = {}
    /\ todo = {}
    /\ since = [c \in Conns |-> 0]
    /\ fatal = NoFatal

(***************************************************************************)
(* The websocket handler, main.go:275-289                                  *)
(***************************************************************************)

\* main.go:275-276: the connection is accepted and the handler starts the
\* assignment clients[c] = true.
Accept(c) ==
    /\ Running
    /\ hpc[c] = "Connecting"
    /\ hpc' = [hpc EXCEPT ![c] = "Registering"]
    /\ UNCHANGED <<clients, cs, nread, received, fpc, fmsg, client, visited,
                   todo, since, fatal>>

\* main.go:276: the assignment clients[c] = true takes effect.
RegisterEnd(c) ==
    /\ Running
    /\ hpc[c] = "Registering"
    /\ clients' = clients \cup {c}
    /\ hpc' = [hpc EXCEPT ![c] = "Active"]
    /\ since' = [since EXCEPT ![c] = Handed]
    /\ UNCHANGED <<cs, nread, received, fpc, fmsg, client, visited, todo,
                   fatal>>

\* main.go:283 with err == nil: ReadJSON decodes the peer's next message.
ReadOK(c) ==
    /\ Running
    /\ hpc[c] = "Active"
    /\ cs[c] = "open"
    /\ SumRead(nread, Conns) < MaxMsgs
    /\ nread' = [nread EXCEPT ![c] = @ + 1]
    /\ hpc' = [hpc EXCEPT ![c] = "Send"]
    /\ UNCHANGED <<clients, cs, received, fpc, fmsg, client,
                   visited, todo, since, fatal>>

\* main.go:283-285 with err != nil (peer gone, connection closed, malformed
\* payload): the loop breaks and the deferred function is about to run.
ReadFail(c) ==
    /\ Running
    /\ hpc[c] = "Active"
    /\ hpc' = [hpc EXCEPT ![c] = "Closing"]
    /\ UNCHANGED <<clients, cs, nread, received, fpc, fmsg, client,
                   visited, todo, since, fatal>>

\* The message the handler of c holds while it is at broadcast <- msg.
Decoded(c) == <<c, nread[c]>>

\* main.go:287 and main.go:232: broadcast is unbuffered (main.go:228), so the
\* handler's send and handleMessages' receive are one step.
Send(c) ==
    /\ Running
    /\ hpc[c] = "Send"
    /\ fpc = "recv"
    /\ hpc' = [hpc EXCEPT ![c] = "Active"]
    /\ fmsg' = Stamp(Decoded(c), Handed + 1)
    /\ fpc' = "init"
    /\ UNCHANGED <<clients, cs, nread, received, client, visited, todo,
                   since, fatal>>

\* main.go:278: the deferred function starts delete(clients, c).
DeleteBegin(c) ==
    /\ Running
    /\ hpc[c] = "Closing"
    /\ hpc' = [hpc EXCEPT ![c] = "Deleting"]
    /\ UNCHANGED <<clients, cs, nread, received, fpc, fmsg, client, visited,
                   todo, since, fatal>>

\* main.go:278: delete(clients, c) takes effect; deleting an absent key
\* changes nothing.
DeleteEnd(c) ==
    /\ Running
    /\ hpc[c] = "Deleting"
    /\ clients' = clients \ {c}
    /\ hpc' = [hpc EXCEPT ![c] = "Removed"]
    /\ since' = [since EXCEPT ![c] = 0]
    /\ UNCHANGED <<cs, nread, received, fpc, fmsg, client, visited, todo,
                   fatal>>

\* main.go:279: c.Close(), after which the handler has returned.
Close(c) ==
    /\ Running
    /\ hpc[c] = "Removed"
    /\ cs' = [cs EXCEPT ![c] = "closed"]
    /\ hpc' = [hpc EXCEPT ![c] = "Closed"]
    /\ UNCHANGED <<clients, nread, received, fpc, fmsg, client,
                   visited, todo, since, fatal>>

(***************************************************************************)
(* handleMessages, main.go:230-241                                         *)
(***************************************************************************)

\* main.go:233: the range loop over clients starts.
RangeInit ==
    /\ Running
    /\ fpc = "init"
    /\ todo' = clients
    /\ visited' = {}
    /\ fpc' = "range"
    /\ UNCHANGED <<clients, hpc, cs, nread, received, fmsg, client,
                   since, fatal>>

\* The keys produced so far, once the loop has produced c.
Produced(v, c) == v \cup {c}

\* main.go:233: the loop produces a key that is in the map and that it has not
\* produced before.
RangeNext(c) ==
    /\ Running
    /\ fpc = "range"
    /\ c \in clients \ visited
    /\ client' = c
    /\ visited' = Produced(visited, c)
    /\ todo' = todo \ {c}
    /\ fpc' = "write"
    /\ UNCHANGED <<clients, hpc, cs, nread, received, fmsg, since, fatal>>

\* The loop gives up before it has produced every key, as a break or return
\* on the first failed write would make it.
LoopExhausted_EarlyExit == TRUE

\* main.go:233: the range loop has nothing left that it must produce.  Every
\* key that was in the map when the loop started and was not removed has been
\* produced; a key added while the loop ran may be skipped.
LoopExhausted == clients \cap todo = {}

\* main.go:233, 240: the loop ends and handleMessages goes back to the channel.
RangeDone ==
    /\ Running
    /\ fpc = "range"
    /\ LoopExhausted
    /\ fpc' = "recv"
    /\ fmsg' = NoMsg
    /\ client' = NoConn
    /\ visited' = {}
    /\ todo' = {}
    /\ UNCHANGED <<clients, hpc, cs, nread, received, since,
                   fatal>>

\* The write of m overtakes the writes made before it, as writes started
\* without waiting for the previous one would.
Deliver_Overtaking(s, m) == <<m>> \o s

\* What the peer has observed once m is written to its connection.
Deliver(s, m) == Append(s, m)

\* main.go:234 with err == nil: WriteJSON hands msg to the peer.  The range
\* variable is dead until the loop produces the next key.
WriteOK ==
    /\ Running
    /\ fpc = "write"
    /\ cs[client] = "open"
    /\ received' = [received EXCEPT ![client] = Deliver(@, fmsg)]
    /\ fpc' = "range"
    /\ client' = NoConn
    /\ UNCHANGED <<clients, hpc, cs, nread, fmsg, visited, todo, since,
                   fatal>>

\* main.go:234: WriteJSON is called with no write deadline; the peer does not
\* drain its socket and the call does not return.
WriteBlock ==
    /\ Running
    /\ fpc = "write"
    /\ cs[client] = "open"
    /\ fpc' = "blocked"
    /\ UNCHANGED <<clients, hpc, cs, nread, received, fmsg, client, visited,
                   todo, since, fatal>>

\* main.go:234-236 with err != nil: WriteJSON returns an error (always so on a
\* closed connection, and a blocked call returns only when the connection is
\* closed under it), the error is logged and client.Close() is called.
WriteFail ==
    /\ Running
    /\ \/ fpc = "write"
       \/ fpc = "blocked" /\ cs[client] = "closed"
    /\ cs' = [cs EXCEPT ![client] = "closed"]
    /\ fpc' = "delete"
    /\ UNCHANGED <<clients, hpc, nread, received, fmsg, client, visited,
                   todo, since, fatal>>

\* main.go:237: delete(clients, client) starts.
FanoutDeleteBegin ==
    /\ Running
    /\ fpc = "delete"
    /\ fpc' = "deleting"
    /\ UNCHANGED <<clients, hpc, cs, nread, received, fmsg, client, visited,
                   todo, since, fatal>>

\* main.go:237: delete(clients, client) takes effect.
FanoutDeleteEnd ==
    /\ Running
    /\ fpc = "deleting"
    /\ clients' = clients \ {client}
    /\ fpc' = "range"
    /\ since' = [since EXCEPT ![client] = 0]
    /\ client' = NoConn
    /\ UNCHANGED <<hpc, cs, nread, received, fmsg, visited, todo, fatal>>

(***************************************************************************)
(* Unsynchronised access to clients (main.go:227, 233, 237, 276, 278)      *)
(***************************************************************************)

\* The map operation goroutine t is about to start, "none" when it is not
\* at one.
MapOp(t) ==
    IF t = FanOut
    THEN CASE fpc \in {"init", "range"} -> "range"
           [] fpc = "delete" -> "delete"
           [] OTHER -> "none"
    ELSE CASE hpc[t] = "Connecting" -> "insert"
           [] hpc[t] = "Closing" -> "delete"
           [] OTHER -> "none"

\* Goroutine t starts a map operation while another goroutine is inside a map
\* write: the runtime may detect it and abort the whole process.
Fatal(t) ==
    /\ Running
    /\ MapOp(t) # "none"
    /\ mapWriters \ {t} # {}
    /\ fatal' = [by |-> {t}, op |-> MapOp(t), with |-> mapWriters \ {t}]
    /\ UNCHANGED <<clients, hpc, cs, nread, received, fpc, fmsg,
                   client, visited, todo, since>>

HandlerStep(c) ==
    \/ Accept(c)
    \/ RegisterEnd(c)
    \/ ReadOK(c)
    \/ ReadFail(c)
    \/ Send(c)
    \/ DeleteBegin(c)
    \/ DeleteEnd(c)
    \/ Close(c)

FanoutStep ==
    \/ RangeInit
    \/ \E c \in Conns : RangeNext(c)
    \/ RangeDone
    \/ WriteOK
    \/ WriteBlock
    \/ WriteFail
    \/ FanoutDeleteBegin
    \/ FanoutDeleteEnd

Next ==
    \/ \E c \in Conns : HandlerStep(c)
    \/ FanoutStep
    \/ \E t \in Conns \cup {FanOut} : Fatal(t)

Spec == Init /\ [][Next]_vars

(***************************************************************************)
(* The same program when no ReadJSON and no WriteJSON ever fails or blocks *)
(***************************************************************************)

NoFailHandlerStep(c) ==
    \/ Accept(c)
    \/ RegisterEnd(c)
    \/ ReadOK(c)
    \/ Send(c)

NoFailFanoutStep ==
    \/ RangeInit
    \/ \E c \in Conns : RangeNext(c)
    \/ RangeDone
    \/ WriteOK

NextNoFail ==
    \/ \E c \in Conns : NoFailHandlerStep(c)
    \/ NoFailFanoutStep
    \/ \E t \in Conns \cup {FanOut} : Fatal(t)

\* The scheduler runs every goroutine that can take a step: handleMessages,
\* and each handler between two reads.  Accepting a connection and a peer
\* sending a message are up to the peers.
FairNoFailSpec ==
    /\ Init
    /\ [][NextNoFail]_vars
    /\ WF_vars(NoFailFanoutStep)
    /\ \A c \in Conns : WF_vars(RegisterEnd(c) \/ Send(c))

(***************************************************************************)
(* Properties                                                              *)
(***************************************************************************)

\* The hand-over positions of the messages connection c has received.
Stamps(c) == {received[c][i][3] : i \in 1..Len(received[c])}

\* Copies of the message handed over n-th that connection c has received.
Copies(c, n) == Cardinality({i \in 1..Len(received[c]) : received[c][i][3] = n})

\* Connection c was registered when the n-th message was handed over and has
\* stayed registered since.
Owed(c, n) == c \in clients /\ since[c] < n /\ n <= Handed

\* The range loop is between its start and its end.
Iterating == fpc \in {"range", "write", "blocked", "delete", "deleting"}

\* The fan-out of the n-th message has not yet dealt with connection c.
Pending(c, n) ==
    /\ fpc # "recv"
    /\ fmsg[3] = n
    /\ \/ c \notin visited
       \/ c = client /\ fpc \in {"write", "blocked", "delete", "deleting"}

\* C1: with a transport that never fails, every connection registered when a
\* message is handed to the channel, and registered ever after, eventually
\* receives that message.
C1_EventuallyDelivered ==
    \A c \in Conns : \A n \in 1..MaxMsgs :
        [](Owed(c, n) => <>(c \notin clients \/ n \in Stamps(c)))

\* C2: every connection observes the messages it receives in the order the
\* channel handed them over, and two messages of one handler in the order the
\* handler decoded them.
C2_EnqueueOrder ==
    \A c \in Conns : \A i, j \in 1..Len(received[c]) :
        (i < j /\ received[c][i] # received[c][j]) =>
            /\ received[c][i][3] < received[c][j][3]
            /\ received[c][i][1] = received[c][j][1]
                   => received[c][i][2] < received[c][j][2]

\* C2 witness: a connection has received two messages of one handler.
C2_Witness ==
    \E c \in Conns :
        /\ Len(received[c]) = 2
        /\ received[c][1][1] = received[c][2][1]
        /\ received[c][1] # received[c][2]

\* C3: closing and removing a connection whose write failed never ends the
\* fan-out loop.
C3_LoopSurvivesWriteFailure ==
    ~(fatal.op = "delete" /\ fatal.by = {FanOut})
    /\ ~(FanOut \in fatal.with)

\* C4: handleMessages never starts a write on a connection that is no longer
\* in the registry.
C4_NoWriteAfterRemoval ==
    [][(fpc = "write" /\ fpc' # "write") => client \in clients]_vars

\* C5: no two goroutines are inside a registry mutation at once, and no
\* handler is inside one while the fan-out loop iterates over the registry.
C5_RegistrySerialized ==
    \A t \in mapWriters :
        /\ mapWriters = {t}
        /\ t # FanOut => ~Iterating

\* C6: a write that does not return never stops the fan-out loop: the loop
\* still has a step of its own to take.
C6_BlockedWriteDoesNotStall ==
    (Running /\ fpc = "blocked") => ENABLED FanoutStep

\* C7: a handler that has decoded a message can always complete its enqueue,
\* whatever handleMessages is doing.
C7_EnqueueNeverWaits ==
    \A c \in Conns : (Running /\ hpc[c] = "Send") => ENABLED Send(c)

\* C8: no connection ever gets two copies of a message, and once the fan-out
\* of a message has dealt with a connection that was registered when the
\* message was handed over (the sender's own included) and is registered
\* still, that connection has exactly one copy.
C8_ExactlyOnce ==
    \A c \in Conns : \A n \in 1..MaxMsgs :
        /\ Copies(c, n) <= 1
        /\ (Owed(c, n) /\ ~Pending(c, n)) => Copies(c, n) = 1

\* C8 witness: three connections are registered, one of them has sent one
\* message, and each of the three has received exactly that message.
C8_Witness ==
    \E a, b, c \in Conns :
        /\ Cardinality({a, b, c}) = 3
        /\ {a, b, c} \subseteq clients
        /\ fpc = "recv"
        /\ received[a] = <<(<<a, 1, 1>>)>>
        /\ received[b] = received[a]
        /\ received[c] = received[a]

\* C9: when handleMessages and a connection's own handler both remove the
\* connection, the later removal raises no error.
C9_SecondRemovalIsNoOp ==
    ~(/\ fatal.op = "delete"
      /\ \/ /\ fatal.by = {FanOut}
            /\ \/ client \in fatal.with /\ hpc[client] = "Deleting"
               \/ client \notin clients
         \/ \E c \in Conns :
               /\ fatal.by = {c}
               /\ \/ FanOut \in fatal.with /\ client = c
                  \/ c \notin clients)

\* C10: a handler whose read failed removes its connection, closes it and
\* reaches Closed: its cleanup is never what aborts the process.
C10_FailedHandlerReachesClosed ==
    \A c \in Conns :
        ~(/\ ~Running
          /\ \/ hpc[c] = "Closing" /\ fatal.by = {c}
             \/ hpc[c] = "Deleting" /\ c \in fatal.with)


====
